---- MODULE Spec2Model ----
(***************************************************************************)
(* Model of the g2d graph editor (src/main.py): the Node/Edge object       *)
(* graph, the double-click state machine of GraphView, the table that     *)
(* edits a node (TableNode) and the JSON save/load codec.                  *)
(*                                                                         *)
(* Objects are kept in two heaps (node, edge) indexed by identities, so    *)
(* that Python's identity comparisons (==, in, list.remove) and name       *)
(* comparisons ([source name, dest name] lists) stay distinct.             *)
(***************************************************************************)
EXTENDS Integers, Sequences, FiniteSets, TLC

(* ---------------------------- bounds ----------------------------------- *)
\* most nodes the scene may hold before node creation is cut off
MaxNodes == 3
\* most Edge objects alive before edge creation by a gesture is cut off
MaxEdges == 2

(* ------------------------- program constants --------------------------- *)
\* Node._radius
Radius == 30
\* Node.__init__ defaults
DefaultTextColor == "white"
DefaultColor == "#5AD469"
\* the shared default dict data={}
EmptyData == <<>>
\* Python's None for an object reference (identities start at 1)
None == 0
\* GraphView._file when constructed without a file name
NoFile == "<None>"

\* scene points offered to a primary activation on empty space
Points == {<<100, 100>>, <<45, 70>>}

Range(s) == {s[i] : i \in 1..Len(s)}

InSeq(x, s) == \E i \in 1..Len(s) : s[i] = x

(* ------------------------------ str() ---------------------------------- *)
Digits == <<"0", "1", "2", "3", "4", "5", "6", "7", "8", "9">>

RECURSIVE str(_)
str(n) == IF n < 10 THEN Digits[n + 1]
          ELSE str(n \div 10) \o Digits[(n % 10) + 1]

(* ----------------------------- state ----------------------------------- *)
VARIABLES
    node,          \* heap of Node objects: id -> [name, edges, color, textcolor, pos, data]
    edge,          \* heap of Edge objects: id -> [source, dest]
    sceneNodes,    \* Node items of the scene, in insertion order
    sceneEdges,    \* Edge items of the scene
    selectedNode,  \* GraphView._selectedNode
    nodes_map,     \* GraphView._nodes_map: name -> node id
    status,        \* message shown by the status bar
    file,          \* GraphView._file
    disk,          \* content of the file named by GraphView._file
    tableData      \* GraphView.tableData: the Node the open TableNode shows

vars == <<node, edge, sceneNodes, sceneEdges, selectedNode, nodes_map, status, file, disk,
          tableData>>

(* --------------------------- object heaps ------------------------------ *)
\* smallest identity not in use
Fresh(used) == CHOOSE i \in 1..(Cardinality(used) + 1) : i \notin used

\* the objects still referenced from the given roots, <<nodes, edges>>
\* (Python keeps exactly those alive)
RECURSIVE Closure(_, _, _, _)
Closure(N, E, ns, es) ==
    LET ns2 == ns \cup {E[e].source : e \in es} \cup {E[e].dest : e \in es}
        es2 == es \cup UNION {Range(N[n].edges) : n \in ns}
    IN IF ns2 = ns /\ es2 = es THEN <<ns, es>> ELSE Closure(N, E, ns2, es2)


(* ------------------------------- Node ---------------------------------- *)
\* Node.__init__ with the two colour arguments taken in the other order
NewNodeColorsSwapped(name, textcolor, color, data) ==
    [name |-> name, edges |-> <<>>, color |-> textcolor, textcolor |-> color,
     pos |-> <<0, 0>>, data |-> data]

\* Node.__init__
NewNode(name, textcolor, color, data) ==
    [name |-> name, edges |-> <<>>, color |-> color, textcolor |-> textcolor,
     pos |-> <<0, 0>>, data |-> data]

\* [i._source._name, i._dest._name]
PairOf(N, E, e) == <<N[E[e].source].name, N[E[e].dest].name>>

\* Node.get_edges: the test "i not in edges" compares an Edge object with
\* lists of names and is always true, so one pair is appended per list entry
get_edges(N, E, n) == [i \in 1..Len(N[n].edges) |-> PairOf(N, E, N[n].edges[i])]

AppendEdge(N, n, e) == [N EXCEPT ![n].edges = Append(@, e)]

\* Node.add_edge without the test of the pairs
add_edgeUntested(N, E, n, e) ==
    LET N1 == IF Len(N[n].edges) = 0 THEN AppendEdge(N, n, e) ELSE N
    IN AppendEdge(N1, n, e)

\* Node.add_edge
add_edge(N, E, n, e) ==
    LET N1 == IF Len(N[n].edges) = 0 THEN AppendEdge(N, n, e) ELSE N
        target == PairOf(N1, E, e)
    IN IF ~InSeq(target, get_edges(N1, E, n)) /\ ~InSeq(target, get_edges(N1, E, E[e].dest))
       THEN AppendEdge(N1, n, e)
       ELSE N1

\* list.remove(x): drops the first occurrence of x
RemoveFirst(s, x) ==
    LET k == CHOOSE i \in 1..Len(s) : s[i] = x /\ \A j \in 1..(i - 1) : s[j] # x
    IN [i \in 1..(Len(s) - 1) |-> IF i < k THEN s[i] ELSE s[i + 1]]

\* the loop of Node.del_edge matching the edges of either direction
RECURSIVE DelLoopEitherWay(_, _, _, _)
DelLoopEitherWay(E, s, i, e) ==
    IF i > Len(s) THEN s
    ELSE IF {E[e].source, E[e].dest} = {E[s[i]].source, E[s[i]].dest}
         THEN DelLoopEitherWay(E, RemoveFirst(s, s[i]), i + 1, e)
         ELSE DelLoopEitherWay(E, s, i + 1, e)

\* the for loop of Node.del_edge: the list is mutated while the iterator
\* index i keeps advancing
RECURSIVE DelLoop(_, _, _, _)
DelLoop(E, s, i, e) ==
    IF i > Len(s) THEN s
    ELSE IF E[e].source = E[s[i]].source /\ E[e].dest = E[s[i]].dest
         THEN DelLoop(E, RemoveFirst(s, s[i]), i + 1, e)
         ELSE DelLoop(E, s, i + 1, e)

\* Node.del_edge
del_edge(N, E, n, e) == [N EXCEPT ![n].edges = DelLoop(E, @, 1, e)]

\* Node.setPosition without the subtraction of the radius
setPositionNoOffset(N, n, p) == [N EXCEPT ![n].pos = <<p[1], p[2]>>]

\* Node.setPosition
setPosition(N, n, p) == [N EXCEPT ![n].pos = <<p[1] - Radius, p[2] - Radius>>]

(* ------------------------------- Edge ---------------------------------- *)
\* Edge.__init__ up to the two registrations; yields the heaps and the new identity
EdgeInit(N, E, s, d) ==
    LET e  == Fresh(DOMAIN E)
        E1 == (e :> [source |-> s, dest |-> d]) @@ E
        N1 == add_edge(N, E1, s, e)
        N2 == add_edge(N1, E1, d, e)
    IN [N |-> N2, E |-> E1, e |-> e]

\* Edge.delete
EdgeDelete(N, E, e) == del_edge(del_edge(N, E, E[e].source, e), E, E[e].dest, e)

(* ----------------------------- GraphView ------------------------------- *)
\* GraphView.__init__ (MainWindow builds GraphView() without a file name)
Init ==
    /\ node = <<>>
    /\ edge = <<>>
    /\ sceneNodes = <<>>
    /\ sceneEdges = {}
    /\ selectedNode = None
    /\ nodes_map = <<>>
    /\ status = ""
    /\ file = NoFile
    /\ disk = <<>>
    /\ tableData = None

\* position of x in the increasing enumeration of S
Rank(x, S) == Cardinality({y \in S : y <= x})

\* the next values of the object graph.  Objects nothing refers to any more
\* are dropped from the heaps, and the identities of the others (which the
\* program only ever compares for equality) are renumbered in order
Renumbered(N, E, sn, se, sel, nm, td, LN, LE) ==
    LET nid(n) == Rank(n, LN)
        eid(e) == Rank(e, LE)
    IN /\ node' = [k \in 1..Cardinality(LN) |->
                      LET n == CHOOSE m \in LN : nid(m) = k
                      IN [N[n] EXCEPT !.edges = [i \in 1..Len(@) |-> eid(@[i])]]]
       /\ edge' = [k \in 1..Cardinality(LE) |->
                      LET e == CHOOSE m \in LE : eid(m) = k
                      IN [source |-> nid(E[e].source), dest |-> nid(E[e].dest)]]
       /\ sceneNodes' = [i \in 1..Len(sn) |-> nid(sn[i])]
       /\ sceneEdges' = {eid(e) : e \in se}
       /\ selectedNode' = IF sel = None THEN None ELSE nid(sel)
       /\ nodes_map' = [k \in DOMAIN nm |-> nid(nm[k])]
       /\ tableData' = IF td = None THEN None ELSE nid(td)

\* the object graph after an operation that leaves td as the Node of the table
StoreAll(N, E, sn, se, sel, nm, td) ==
    LET rn == Range(sn) \cup ({sel, td} \ {None}) \cup {nm[k] : k \in DOMAIN nm}
        c  == Closure(N, E, rn, se)
    IN IF c[1] = DOMAIN N /\ c[2] = DOMAIN E
       THEN /\ node' = [k \in DOMAIN N |-> N[k]]
            /\ edge' = [k \in DOMAIN E |-> E[k]]
            /\ sceneNodes' = sn
            /\ sceneEdges' = se
            /\ selectedNode' = sel
            /\ nodes_map' = nm
            /\ tableData' = td
       ELSE Renumbered(N, E, sn, se, sel, nm, td, c[1], c[2])

\* the object graph after an operation that does not touch the table
Store(N, E, sn, se, sel, nm) == StoreAll(N, E, sn, se, sel, nm, tableData)

\* items itemAt(p) can return: a Node or an Edge of the scene
IsNodeItem(n) == n \in Range(sceneNodes)

\* edg=[i for i in self._selectedNode._edges if i in item._edges]
SharedEdges(N, a, b) == SelectSeq(N[a].edges, LAMBDA e : InSeq(e, N[b].edges))

\* the comparison list built as [dest name, source name]
PairsOfReversed(N, E, es) ==
    [i \in 1..Len(es) |-> <<N[E[es[i]].dest].name, N[E[es[i]].source].name>>]

\* [[x._source._name,x._dest._name] for x in edg]
PairsOf(N, E, es) == [i \in 1..Len(es) |-> PairOf(N, E, es[i])]

AddedMsg(N, E, e) == N[E[e].source].name \o "->" \o N[E[e].dest].name \o " added."

DeletedMsg(N, E, e) == N[E[e].source].name \o "->" \o N[E[e].dest].name \o " deleted."

\* left button, a Node under the pointer, nothing selected: select it
LeftSelect(item) ==
    /\ IsNodeItem(item)
    /\ selectedNode = None
    /\ selectedNode' = item
    /\ status' = "Selected Node: " \o node[item].name
    /\ UNCHANGED <<node, edge, sceneNodes, sceneEdges, nodes_map, file, disk, tableData>>

\* the two branches that build Edge(self._selectedNode, item).  Edge.__init__
\* ends with adjust(), which calls source.pos(): on a selected node that
\* scene().clear() has destroyed, PySide raises RuntimeError there, after both
\* registrations and before addItem, the deselection and the message
LeftAddEdge(item) ==
    LET r == EdgeInit(node, edge, selectedNode, item)
    IN IF IsNodeItem(selectedNode)
       THEN /\ Store(r.N, r.E, sceneNodes, sceneEdges \cup {r.e}, None, nodes_map)
            /\ status' = AddedMsg(r.N, r.E, r.e)
       ELSE /\ Store(r.N, r.E, sceneNodes, sceneEdges, selectedNode, nodes_map)
            /\ status' = status

\* the delete branch without scene().removeItem(edg)
LeftDeleteEdgeKeepsItem(edg) ==
    LET e == edg[1]
        N == EdgeDelete(node, edge, e)
    IN /\ Store(N, edge, sceneNodes, sceneEdges, None, nodes_map)
       /\ status' = DeletedMsg(node, edge, e)

\* edg=edg[0]; edg.delete(); removeItem(edg)
LeftDeleteEdge(edg) ==
    LET e == edg[1]
        N == EdgeDelete(node, edge, e)
    IN /\ Store(N, edge, sceneNodes, sceneEdges \ {e}, None, nodes_map)
       /\ status' = DeletedMsg(node, edge, e)

\* left button, a Node other than the selected one under the pointer; edge
\* creation is cut off once cap Edge objects are alive
LeftToggleUpTo(item, cap) ==
    /\ IsNodeItem(item)
    /\ selectedNode # None
    /\ selectedNode # item
    /\ LET edg == SharedEdges(node, selectedNode, item)
       IN IF edg = <<>>
             \/ ~InSeq(<<node[selectedNode].name, node[item].name>>, PairsOf(node, edge, edg))
          THEN /\ Cardinality(DOMAIN edge) < cap
               /\ LeftAddEdge(item)
          ELSE LeftDeleteEdge(edg)
    /\ UNCHANGED <<file, disk>>

\* left button, a Node other than the selected one under the pointer
LeftToggle(item) == LeftToggleUpTo(item, MaxEdges)

\* a second activation of the selected Node taken as a deselection
LeftSameDeselects(item) ==
    /\ IsNodeItem(item)
    /\ selectedNode = item
    /\ selectedNode' = None
    /\ UNCHANGED <<node, edge, sceneNodes, sceneEdges, nodes_map, status, file, disk, tableData>>

\* left button on the selected Node itself: neither branch runs
LeftSame(item) ==
    /\ IsNodeItem(item)
    /\ selectedNode = item
    /\ UNCHANGED vars

\* left button with a Node under the pointer
LeftOnNode(item) == LeftSelect(item) \/ LeftToggle(item) \/ LeftSame(item)

\* left button with an Edge under the pointer: type(item) is not Node
LeftOnEdge(item) ==
    /\ item \in sceneEdges
    /\ UNCHANGED vars

\* node creation that names the Node by the count itself and keeps the selection
LeftEmptyMiscounts(p) ==
    /\ Len(sceneNodes) < MaxNodes
    /\ LET nodes_count == Len(sceneNodes)
           n == Fresh(DOMAIN node)
           N0 == (n :> NewNode(str(nodes_count), DefaultTextColor, DefaultColor, EmptyData)) @@ node
           N1 == setPosition(N0, n, p)
       IN /\ Store(N1, edge, Append(sceneNodes, n), sceneEdges, selectedNode, nodes_map)
          /\ status' = "Added Node: " \o N1[n].name
    /\ UNCHANGED <<file, disk>>

\* left button on empty space at scene point p: a new Node
LeftEmpty(p) ==
    /\ Len(sceneNodes) < MaxNodes
    /\ LET nodes_count == Len(sceneNodes)
           n == Fresh(DOMAIN node)
           N0 == (n :> NewNode(str(nodes_count + 1), DefaultTextColor, DefaultColor, EmptyData)) @@ node
           N1 == setPosition(N0, n, p)
       IN /\ Store(N1, edge, Append(sceneNodes, n), sceneEdges, None, nodes_map)
          /\ status' = "Added Node: " \o N1[n].name
    /\ UNCHANGED <<file, disk>>

\* GraphView.mouseDoubleClickEvent, case LeftButton
LeftButton ==
    \/ \E item \in DOMAIN node : LeftOnNode(item)
    \/ \E item \in DOMAIN edge : LeftOnEdge(item)
    \/ \E p \in Points : LeftEmpty(p)

\* the one scene point offered on empty space where positions play no part
OnePoint == {<<100, 100>>}

\* GraphView.mouseDoubleClickEvent, case LeftButton, with every activation
\* on empty space at the same scene point
LeftButtonOnePoint ==
    \/ \E item \in DOMAIN node : LeftOnNode(item)
    \/ \E item \in DOMAIN edge : LeftOnEdge(item)
    \/ \E p \in OnePoint : LeftEmpty(p)

\* what itemAt(p) can return: a Node or an Edge of the scene, or nothing
HitNodes == Range(sceneNodes)

HitOthers == sceneEdges \cup {None}

\* the middle button deselecting whichever Node is under the pointer
MiddleOnNodeAlways(item) ==
    /\ item \in HitNodes
    /\ selectedNode' = None
    /\ status' = "Selected Node: None"
    /\ UNCHANGED <<node, edge, sceneNodes, sceneEdges, nodes_map, file, disk, tableData>>

\* the middle button with a Node under the pointer: the selected one is
\* deselected, another one does nothing
MiddleOnNode(item) ==
    /\ item \in HitNodes
    /\ IF selectedNode = item
       THEN /\ selectedNode' = None
            /\ status' = "Selected Node: None"
            /\ UNCHANGED <<node, edge, sceneNodes, sceneEdges, nodes_map, file, disk, tableData>>
       ELSE UNCHANGED vars

\* a button other than the left one with an Edge or nothing under the pointer
OffNode(item) ==
    /\ item \in HitOthers
    /\ UNCHANGED vars

\* GraphView.mouseDoubleClickEvent, case MiddleButton
MiddleButton ==
    \/ \E item \in DOMAIN node : MiddleOnNode(item)
    \/ \E item \in DOMAIN edge \cup {None} : OffNode(item)

\* GraphView.mouseDoubleClickEvent, case RightButton, with a Node under the
\* pointer: self.tableData=TableNode(item).  The table that was open is
\* dropped with the Node it showed; the new one shows item
RightOnNode(item) ==
    /\ item \in HitNodes
    /\ StoreAll(node, edge, sceneNodes, sceneEdges, selectedNode, nodes_map, item)
    /\ UNCHANGED <<status, file, disk>>

\* GraphView.mouseDoubleClickEvent, case RightButton
RightButton ==
    \/ \E item \in DOMAIN node : RightOnNode(item)
    \/ \E item \in DOMAIN edge \cup {None} : OffNode(item)

(* ------------------------------ TableNode ------------------------------ *)
\* Node.reload
reload(N, n, data) ==
    [N EXCEPT ![n].name = data.name, ![n].color = data.color,
              ![n].textcolor = data.textcolor, ![n].data = data.data]

\* texts typed into the value cell of the table's first row ("name")
NameTexts == {"1", "3"}

\* TableNode.change_celldata after the value cell of row 0 was edited to
\* text: _nodeData is rebuilt from every row of the table (the other rows
\* still hold what the Node holds) and handed to Node.reload
change_celldata(text) ==
    /\ tableData # None
    /\ LET n == tableData
           nodeData == [name |-> text, color |-> node[n].color,
                        textcolor |-> node[n].textcolor, data |-> node[n].data]
       IN Store(reload(node, n, nodeData), edge, sceneNodes, sceneEdges, selectedNode, nodes_map)
    /\ UNCHANGED <<status, file, disk>>

(* ------------------------------ documents ------------------------------ *)
\* Node.get
get(N, E, n) ==
    [name |-> N[n].name, edges |-> get_edges(N, E, n), color |-> N[n].color,
     textcolor |-> N[n].textcolor, pos |-> N[n].pos, data |-> N[n].data]

\* scene().items() lists the items topmost first; Nodes that all have the
\* same z value are stacked in insertion order
Items(sn) == [i \in 1..Len(sn) |-> sn[Len(sn) + 1 - i]]

\* GraphView.save_graph
save_graph(N, E, sn) == [i \in 1..Len(sn) |-> get(N, E, Items(sn)[i])]

\* the collection of pairs without the "not in edge_map" test
RECURSIVE CollectPairsNoTest(_, _, _)
CollectPairsNoTest(es, i, edge_map) ==
    IF i > Len(es) THEN edge_map
    ELSE CollectPairsNoTest(es, i + 1, Append(edge_map, es[i]))

\* the part of load_graph's first loop that collects the pairs of one record
RECURSIVE CollectPairs(_, _, _)
CollectPairs(es, i, edge_map) ==
    IF i > Len(es) THEN edge_map
    ELSE CollectPairs(es, i + 1,
                      IF InSeq(es[i], edge_map) THEN edge_map ELSE Append(edge_map, es[i]))

\* load_graph's first loop, from record i on; w is [N, sn, nm, edge_map]
RECURSIVE LoadNodes(_, _, _)
LoadNodes(dumpdata, i, w) ==
    IF i > Len(dumpdata) THEN w
    ELSE LET rec == dumpdata[i]
             n   == Fresh(DOMAIN w.N)
             nd  == [NewNode(rec.name, rec.textcolor, rec.color, rec.data) EXCEPT !.pos = rec.pos]
         IN LoadNodes(dumpdata, i + 1,
                      [N        |-> (n :> nd) @@ w.N,
                       sn       |-> Append(w.sn, n),
                       nm       |-> (rec.name :> n) @@ w.nm,
                       edge_map |-> CollectPairs(rec.edges, 1, w.edge_map)])

\* load_graph's second loop, from pair i on; w is [N, E, se, ok].  A name
\* that is not a key of the map raises KeyError and ends the loop there
RECURSIVE LoadEdges(_, _, _, _)
LoadEdges(edge_map, nm, i, w) ==
    IF i > Len(edge_map) THEN w
    ELSE IF edge_map[i][1] \notin DOMAIN nm \/ edge_map[i][2] \notin DOMAIN nm
         THEN [w EXCEPT !.ok = FALSE]
         ELSE LET r == EdgeInit(w.N, w.E, nm[edge_map[i][1]], nm[edge_map[i][2]])
              IN LoadEdges(edge_map, nm, i + 1,
                           [N |-> r.N, E |-> r.E, se |-> w.se \cup {r.e}, ok |-> TRUE])

\* load_graph without scene().clear() and _nodes_map.clear()
LoadResultKeepsScene(N, E, dumpdata) ==
    LET a == LoadNodes(dumpdata, 1,
                       [N |-> N, sn |-> sceneNodes, nm |-> nodes_map, edge_map |-> <<>>])
        b == LoadEdges(a.edge_map, a.nm, 1, [N |-> a.N, E |-> E, se |-> sceneEdges, ok |-> TRUE])
    IN [N |-> b.N, E |-> b.E, sn |-> a.sn, se |-> b.se, nm |-> a.nm, ok |-> b.ok,
        edge_map |-> a.edge_map]

\* what load_graph builds from a document once the path has been accepted:
\* the scene and the map are cleared first, then filled
LoadResult(N, E, dumpdata) ==
    LET a == LoadNodes(dumpdata, 1, [N |-> N, sn |-> <<>>, nm |-> <<>>, edge_map |-> <<>>])
        b == LoadEdges(a.edge_map, a.nm, 1, [N |-> a.N, E |-> E, se |-> {}, ok |-> TRUE])
    IN [N |-> b.N, E |-> b.E, sn |-> a.sn, se |-> b.se, nm |-> a.nm, ok |-> b.ok,
        edge_map |-> a.edge_map]

\* one record of a document
Record(name, edges, pos) ==
    [name |-> name, edges |-> edges, color |-> "#102030", textcolor |-> "black",
     pos |-> pos, data |-> <<<<"k", "v">>>>]

\* documents written by something other than this program
ExternalDocs ==
    { <<>>,
      <<Record("2", <<>>, <<5, 7>>)>>,
      <<Record("1", <<<<"1", "2">>>>, <<5, 7>>), Record("2", <<<<"1", "2">>>>, <<90, 7>>)>>,
      <<Record("1", <<<<"1", "2">>, <<"2", "1">>, <<"1", "2">>>>, <<5, 7>>),
        Record("2", <<<<"2", "1">>, <<"1", "2">>>>, <<90, 7>>)>>,
      <<Record("2", <<<<"2", "2">>>>, <<5, 7>>)>>,
      <<Record("1", <<<<"1", "3">>>>, <<5, 7>>)>>,
      <<Record("1", <<<<"1", "2">>, <<"1", "3">>>>, <<5, 7>>), Record("2", <<<<"1", "2">>>>, <<90, 7>>)>>,
      <<Record("1", <<<<"1", "1">>>>, <<5, 7>>), Record("1", <<>>, <<90, 7>>)>> }

\* file names the dialogs may return
Paths == {"ab", "abc", "g.js"}

CorruptedMsg(f) == "File " \o f \o " is corrupted."

OpenedMsg(f) == "File " \o f \o " opened."

\* len(self._file)<=3
PathRejected(f) == Len(f) <= 3

\* load_graph with scene().clear() and _nodes_map.clear() ahead of the test of
\* the path
load_graphClearsFirst(f, dumpdata) ==
    IF PathRejected(f)
    THEN /\ status' = CorruptedMsg(f)
         /\ Store(node, edge, <<>>, {}, selectedNode, <<>>)
    ELSE LET r == LoadResult(node, edge, dumpdata)
         IN /\ Store(r.N, r.E, r.sn, r.se, selectedNode, r.nm)
            /\ status' = IF r.ok THEN OpenedMsg(f) ELSE status

\* whether load_graph returns (rather than raises) for path f and content dumpdata
LoadReturns(f, dumpdata) == PathRejected(f) \/ LoadResult(node, edge, dumpdata).ok

\* GraphView.load_graph with self._file = f (a string) and dumpdata the
\* content of that file
load_graph(f, dumpdata) ==
    IF PathRejected(f)
    THEN /\ status' = CorruptedMsg(f)
         /\ UNCHANGED <<node, edge, sceneNodes, sceneEdges, selectedNode, nodes_map, tableData>>
    ELSE LET r == LoadResult(node, edge, dumpdata)
         IN /\ Store(r.N, r.E, r.sn, r.se, selectedNode, r.nm)
            /\ status' = IF r.ok THEN OpenedMsg(f) ELSE status

(* ----------------------------- MainWindow ------------------------------ *)
\* MainWindow.load: the dialog returns fileName, whose content is dumpdata
\* (files with a name load_graph rejects are never read; they hold [])
load(fileName, dumpdata) ==
    /\ file' = fileName
    /\ disk' = dumpdata
    /\ load_graph(fileName, dumpdata)

\* MainWindow.currentLoad; len(None) raises before anything happens
currentLoad ==
    IF file = NoFile THEN UNCHANGED vars
    ELSE /\ IF PathRejected(file)
            THEN /\ status' = "File " \o file \o " quickloaded."
                 /\ UNCHANGED <<node, edge, sceneNodes, sceneEdges, selectedNode, nodes_map, tableData>>
            ELSE LET r == LoadResult(node, edge, disk)
                 IN /\ Store(r.N, r.E, r.sn, r.se, selectedNode, r.nm)
                    /\ status' = IF r.ok THEN "File " \o file \o " quickloaded." ELSE status
         /\ UNCHANGED <<file, disk>>

\* len(fileName)>=3, the test of both save operations
SaveAccepts(fileName) == Len(fileName) >= 3

\* MainWindow.quickSave; len(None) raises before anything happens
quickSave ==
    IF file # NoFile /\ SaveAccepts(file)
    THEN /\ disk' = save_graph(node, edge, sceneNodes)
         /\ status' = "File " \o file \o " quicksaved."
         /\ UNCHANGED <<node, edge, sceneNodes, sceneEdges, selectedNode, nodes_map, file, tableData>>
    ELSE UNCHANGED vars

\* MainWindow.save: the dialog returns fileName ("" when it is cancelled)
save(fileName) ==
    IF SaveAccepts(fileName)
    THEN /\ disk' = IF fileName = file THEN save_graph(node, edge, sceneNodes) ELSE disk
         /\ status' = "File " \o fileName \o " saved."
         /\ UNCHANGED <<node, edge, sceneNodes, sceneEdges, selectedNode, nodes_map, file, tableData>>
    ELSE UNCHANGED vars

Next ==
    \/ LeftButton
    \/ MiddleButton
    \/ RightButton
    \/ \E text \in NameTexts : change_celldata(text)
    \/ \E fileName \in Paths :
          IF PathRejected(fileName) THEN load(fileName, <<>>)
          ELSE \E dumpdata \in ExternalDocs \cup (IF fileName = file THEN {disk} ELSE {}) :
                  load(fileName, dumpdata)
    \/ currentLoad
    \/ quickSave
    \/ \E fileName \in Paths \cup {""} : save(fileName)

\* the editor with every operation
Spec == Init /\ [][Next]_vars

NextPrimary == LeftButton

\* the editor driven by primary activations only, from the empty scene
SpecPrimary == Init /\ [][NextPrimary]_vars

\* a file name load_graph accepts
GoodPath == "g.js"

NextImport ==
    \/ LeftButton
    \/ MiddleButton
    \/ /\ selectedNode = None
       /\ \E dumpdata \in ExternalDocs : load(GoodPath, dumpdata)
    \/ /\ selectedNode = None
       /\ currentLoad

\* the editor driven by primary and tertiary activations and by imports that
\* are started while no node is selected
SpecImport == Init /\ [][NextImport]_vars

NextImportDense ==
    \/ \E item \in DOMAIN node :
          LeftSelect(item) \/ LeftToggleUpTo(item, MaxEdges + 1) \/ LeftSame(item)
    \/ \E p \in Points : LeftEmpty(p)
    \/ /\ selectedNode = None
       /\ \E dumpdata \in ExternalDocs : load(GoodPath, dumpdata)

\* the editor driven by primary activations on nodes and on empty space and
\* by imports started while no node is selected, with edge creation cut off
\* one edge later than in the other specifications
SpecImportDense == Init /\ [][NextImportDense]_vars

NextStale ==
    \/ LeftButtonOnePoint
    \/ MiddleButton
    \/ \E dumpdata \in ExternalDocs : load(GoodPath, dumpdata)

\* the editor driven by primary and tertiary activations and by imports in
\* any interleaving, an import with a node selected included (new nodes all
\* placed at one point)
SpecStale == Init /\ [][NextStale]_vars

NextPaths ==
    \/ \E p \in Points : LeftEmpty(p)
    \/ \E item \in DOMAIN node : LeftSelect(item)
    \/ MiddleButton
    \/ \E fileName \in Paths :
          IF PathRejected(fileName) THEN load(fileName, <<>>)
          ELSE /\ selectedNode = None
               /\ \E dumpdata \in ExternalDocs \cup (IF fileName = file THEN {disk} ELSE {}) :
                      load(fileName, dumpdata)
    \/ /\ selectedNode = None \/ file = NoFile \/ PathRejected(file)
       /\ currentLoad
    \/ quickSave
    \/ \E fileName \in Paths \cup {""} : save(fileName)

\* the editor with its four file operations on every file name, with node
\* creation and selection; a document is read only while no node is selected
SpecPaths == Init /\ [][NextPaths]_vars

NextButtons ==
    \/ LeftButtonOnePoint
    \/ MiddleButton
    \/ RightButton

\* the editor driven by the three mouse buttons, from the empty scene (new
\* nodes all placed at one point)
SpecButtons == Init /\ [][NextButtons]_vars

NextRename ==
    \/ LeftButtonOnePoint
    \/ RightButton
    \/ \E text \in NameTexts : change_celldata(text)

\* the editor driven by primary activations and by edits of node names in
\* the table a secondary activation opens (new nodes all placed at one point)
SpecRename == Init /\ [][NextRename]_vars


(* ============================== properties ============================= *)
\* edges of the scene directed from a to b
Directed(a, b) == {e \in sceneEdges : edge[e].source = a /\ edge[e].dest = b}

\* edges of the scene linking a and b in either direction
Linking(a, b) == Directed(a, b) \cup Directed(b, a)

\* entries of n's edge list that are edges directed from a to b
Listed(n, a, b) ==
    {i \in 1..Len(node[n].edges) :
        edge[node[n].edges[i]].source = a /\ edge[node[n].edges[i]].dest = b}

Grows == Cardinality(sceneEdges') = Cardinality(sceneEdges) + 1

Shrinks == Cardinality(sceneEdges') = Cardinality(sceneEdges) - 1

GraphUnchanged == UNCHANGED <<node, edge, sceneNodes, sceneEdges, nodes_map>>

C2_AdjacencySymmetry ==
    \A e \in sceneEdges :
        /\ InSeq(e, node[edge[e].source].edges)
        /\ InSeq(e, node[edge[e].dest].edges)

\* a document as a set of node descriptions, each with its set of pairs
AsSet(d) ==
    {[name |-> d[i].name, color |-> d[i].color, textcolor |-> d[i].textcolor,
      pos |-> d[i].pos, data |-> d[i].data, edges |-> Range(d[i].edges)] : i \in 1..Len(d)}

\* C3: exporting the graph, importing that export and exporting again gives
\* the same nodes (name, colours, position, data) with the same pairs each
C3_RoundTrip ==
    LET first  == save_graph(node, edge, sceneNodes)
        r      == LoadResult(node, edge, first)
        second == save_graph(r.N, r.E, r.sn)
    IN /\ r.ok
       /\ Len(second) = Len(first)
       /\ AsSet(second) = AsSet(first)

\* three nodes, two of them linked in both directions
C3_Witness ==
    /\ Len(sceneNodes) = 3
    /\ \E a, b \in Range(sceneNodes) : a # b /\ Directed(a, b) # {} /\ Directed(b, a) # {}

\* every pair of the document names records of the document
WellFormed(d) ==
    \A i \in 1..Len(d) : \A j \in 1..Len(d[i].edges) : \A k \in 1..2 :
        \E r \in 1..Len(d) : d[r].name = d[i].edges[j][k]

\* the records of the document have pairwise distinct names
DistinctNames(d) == \A i, j \in 1..Len(d) : i # j => d[i].name # d[j].name

\* C4: an import of a document with a pair that names no record fails and
\* leaves the nodes, the edges and the name-to-node map as they were
C4_ImportAllOrNothing ==
    [][\A d \in ExternalDocs :
          (~WellFormed(d) /\ load(GoodPath, d)) =>
              (~LoadReturns(GoodPath, d) /\ GraphUnchanged)]_vars

C6_DeleteMatchingEdge ==
    [][\A a, b \in DOMAIN node :
          (selectedNode = a /\ LeftToggle(b) /\ Shrinks) =>
              /\ Directed(a, b)' = {}
              /\ Listed(a, a, b)' = {} /\ Listed(b, a, b)' = {}
              /\ Cardinality(Directed(b, a))' = Cardinality(Directed(b, a))
              /\ Cardinality(Listed(a, b, a))' = Cardinality(Listed(a, b, a))
              /\ Cardinality(Listed(b, b, a))' = Cardinality(Listed(b, b, a))]_vars

\* C7: with nothing selected an activation of node a selects a and changes
\* no node or edge; with a selected an activation of a is possible and
\* changes nothing at all
C7_SelectionKept ==
    \A a \in Range(sceneNodes) :
        /\ selectedNode = None =>
              /\ ENABLED (LeftOnNode(a) /\ selectedNode' = a /\ GraphUnchanged)
              /\ ~ENABLED (LeftOnNode(a) /\ ~(selectedNode' = a /\ GraphUnchanged))
        /\ selectedNode = a =>
              /\ ENABLED LeftOnNode(a)
              /\ ~ENABLED (LeftOnNode(a) /\ vars' # vars)

\* node 2 is selected in a scene that holds edges
C7_Witness ==
    /\ selectedNode = 2
    /\ status = "Selected Node: 2"
    /\ sceneEdges # {}

\* decimal strings of the first counts
Decimal == <<"1", "2", "3", "4", "5", "6", "7", "8", "9", "10">>

\* C8: an activation on empty space adds one node, named by the number of
\* nodes before it plus one, with no edges; it changes no other node and no
\* edge and leaves nothing selected
C8_NodeCreation ==
    [][\A p \in Points :
          LeftEmpty(p) =>
              LET k == Len(sceneNodes) + 1
              IN /\ Len(sceneNodes') = k
                 /\ \A i \in 1..(k - 1) :
                       sceneNodes'[i] = sceneNodes[i] /\ node'[sceneNodes[i]] = node[sceneNodes[i]]
                 /\ node'[sceneNodes'[k]].name = Decimal[k]
                 /\ node'[sceneNodes'[k]].edges = <<>>
                 /\ sceneNodes'[k] \notin DOMAIN node
                 /\ sceneEdges' = sceneEdges /\ edge' = edge
                 /\ selectedNode' = None]_vars

\* the third node was just created in a scene that holds an edge
C8_Witness ==
    /\ status = "Added Node: 3"
    /\ Len(sceneNodes) = 3
    /\ sceneEdges # {}

\* C9: after imports of well-formed documents with pairwise distinct names,
\* and whatever is created afterwards, no two nodes of the scene have the
\* same name (disk is the document of the last import)
C9_NamesUnique ==
    (WellFormed(disk) /\ DistinctNames(disk)) =>
        \A a, b \in Range(sceneNodes) : a # b => node[a].name # node[b].name

\* the pairs of a document, each once, in the order of their first listing
AllPairs(d) ==
    LET RECURSIVE Flat(_)
        Flat(i) == IF i > Len(d) THEN <<>> ELSE d[i].edges \o Flat(i + 1)
    IN Flat(1)

FirstSeen(ps) ==
    LET keep == {i \in 1..Len(ps) : \A j \in 1..(i - 1) : ps[j] # ps[i]}
    IN [k \in 1..Cardinality(keep) |-> ps[CHOOSE i \in keep : Cardinality({j \in keep : j <= i}) = k]]

\* the last operation was an import of the document on disk that ran to its
\* end (an import that fails leaves the message of the operation before it)
Imported ==
    /\ WellFormed(disk)
    /\ status = OpenedMsg(file) \/ status = "File " \o file \o " quickloaded."

\* C10: after an import the scene holds exactly one edge for each distinct
\* pair of the document, built in first-seen order between the nodes the
\* map gives for the two names, and each is once in the edge list of each of
\* its endpoints
C10_ImportDeduplicates ==
    Imported =>
        LET ps == FirstSeen(AllPairs(disk))
        IN /\ sceneEdges = 1..Len(ps)
           /\ DOMAIN edge = sceneEdges
           /\ \A k \in 1..Len(ps) :
                 /\ edge[k].source = nodes_map[ps[k][1]]
                 /\ edge[k].dest = nodes_map[ps[k][2]]
                 /\ Cardinality({i \in 1..Len(node[edge[k].source].edges) :
                                    node[edge[k].source].edges[i] = k}) = 1
                 /\ Cardinality({i \in 1..Len(node[edge[k].dest].edges) :
                                    node[edge[k].dest].edges[i] = k}) = 1

\* an import of a document that lists one pair in two records
C10_Witness ==
    /\ Imported
    /\ \E i, j \in 1..Len(disk) :
          i # j /\ \E p \in Range(disk[i].edges) : p \in Range(disk[j].edges)
    /\ sceneEdges # {}

\* C11: load_graph on a path it takes as too short returns, shows a message
\* and leaves the nodes, the edges, the name-to-node map and the selection as
\* they were, whether it is called by the Open button or by the quick-load
C11_InvalidPathLoad ==
    [][/\ \A f \in Paths :
             (Len(f) <= 3 /\ load(f, <<>>)) =>
                 /\ LoadReturns(f, <<>>)
                 /\ status' = CorruptedMsg(f)
                 /\ GraphUnchanged /\ selectedNode' = selectedNode
       /\ (file # NoFile /\ Len(file) <= 3 /\ currentLoad) =>
             /\ LoadReturns(file, disk)
             /\ GraphUnchanged /\ selectedNode' = selectedNode]_vars

\* a too short path was just refused while a node of a graph with edges is
\* selected
C11_Witness ==
    /\ status = CorruptedMsg(file)
    /\ Len(file) <= 3
    /\ selectedNode # None
    /\ sceneEdges # {}

\* C19: every path the save operations accept (three characters or more) is
\* attempted by load_graph, and every shorter one is refused by it
C19_SameThreshold ==
    [][\A f \in Paths :
          load(f, <<>>) =>
              /\ SaveAccepts(f) => status' # CorruptedMsg(f)
              /\ ~SaveAccepts(f) => status' = CorruptedMsg(f)]_vars

\* C20: after a quick-load with a stored path that load_graph refuses, the
\* message shown is the one that reports the failure
C20_FailureShown ==
    [][(file # NoFile /\ PathRejected(file) /\ currentLoad) =>
          status' = CorruptedMsg(file)]_vars

\* the position the node named name has among the nodes sn of heap N
PosOf(N, sn, name) == {N[n].pos : n \in {m \in Range(sn) : N[m].name = name}}

\* C12: a node placed at scene point (x, y) is stored at (x - 30, y - 30), 30
\* being the radius; a load puts the node of each record at the stored
\* position; a save writes the position each node has; so the nodes are at
\* the same positions after one and after two save/load cycles
C12_PositionConvention ==
    /\ [][/\ \A p \in Points :
                LeftEmpty(p) =>
                    node'[sceneNodes'[Len(sceneNodes')]].pos = <<p[1] - 30, p[2] - 30>>
          /\ \A f \in Paths : \A d \in ExternalDocs \cup {disk} :
                (/\ file' = f /\ disk' = d /\ ~PathRejected(f)
                 /\ load(f, d) /\ LoadReturns(f, d)) =>
                    /\ Len(sceneNodes') = Len(d)
                    /\ \A i \in 1..Len(d) : node'[sceneNodes'[i]].pos = d[i].pos
          /\ (quickSave /\ file # NoFile /\ SaveAccepts(file)) =>
                /\ Len(disk') = Len(sceneNodes)
                /\ \A i \in 1..Len(sceneNodes) :
                      disk'[i].pos = node[sceneNodes[Len(sceneNodes) + 1 - i]].pos]_vars
    /\ [](LET first  == save_graph(node, edge, sceneNodes)
              r1     == LoadResult(node, edge, first)
              second == save_graph(r1.N, r1.E, r1.sn)
              r2     == LoadResult(r1.N, r1.E, second)
          IN /\ Radius = 30
             /\ Len(r1.sn) = Len(sceneNodes) /\ Len(r2.sn) = Len(sceneNodes)
             /\ \A n \in Range(sceneNodes) :
                   /\ PosOf(r1.N, r1.sn, node[n].name) = PosOf(node, sceneNodes, node[n].name)
                   /\ PosOf(r2.N, r2.sn, node[n].name) = PosOf(node, sceneNodes, node[n].name))

\* a node that was placed at (100, 100) has been saved and loaded again
C12_Witness ==
    /\ status = OpenedMsg(file)
    /\ Len(disk) = Len(sceneNodes)
    /\ \A i \in 1..Len(sceneNodes) : node[sceneNodes[i]].pos = disk[i].pos
    /\ \E n \in Range(sceneNodes) : node[n].pos = <<70, 70>> /\ node[n].color = DefaultColor

\* the step added to the scene exactly one edge, directed from a to b and
\* listed by both, kept every other edge where it was, and left nothing
\* selected
CreatedBetween(a, b) ==
    /\ \E e \in sceneEdges' \ sceneEdges :
          /\ sceneEdges' = sceneEdges \cup {e}
          /\ edge'[e] = [source |-> a, dest |-> b]
          /\ InSeq(e, node'[a].edges)
          /\ InSeq(e, node'[b].edges)
    /\ \A e \in sceneEdges : edge'[e] = edge[e]
    /\ \A n \in DOMAIN node : \A e \in Range(node[n].edges) : InSeq(e, node'[n].edges)
    /\ selectedNode' = None

\* C13: with a selected, a primary activation of another node b that shares
\* no edge with a adds exactly one edge, from a to b, listed by a and by b,
\* clears the selection and shows "<a's name>-><b's name> added."
C13_EdgeCreation ==
    [][\A a, b \in DOMAIN node :
          (/\ selectedNode = a /\ a # b
           /\ SharedEdges(node, a, b) = <<>> /\ Linking(a, b) = {}
           /\ LeftToggle(b)) =>
              /\ CreatedBetween(a, b)
              /\ status' = node[a].name \o "->" \o node[b].name \o " added."]_vars

\* C14: with a selected, a primary activation of another node b, when a and
\* b share edges of which none has the names [a's name, b's name], adds one
\* edge from a to b, listed by a and by b next to the shared ones, and clears
\* the selection
C14_ReverseEdge ==
    [][\A a, b \in DOMAIN node :
          (/\ selectedNode = a /\ a # b
           /\ SharedEdges(node, a, b) # <<>>
           /\ ~InSeq(<<node[a].name, node[b].name>>,
                     PairsOf(node, edge, SharedEdges(node, a, b)))
           /\ LeftToggleUpTo(b, MaxEdges + 1)) =>
              /\ CreatedBetween(a, b)
              /\ \A e \in Range(SharedEdges(node, a, b)) :
                    e \in sceneEdges' /\ InSeq(e, node'[a].edges) /\ InSeq(e, node'[b].edges)]_vars

\* C15: a tertiary activation clears the selection when the node hit is the
\* selected one and otherwise changes nothing; a secondary activation changes
\* neither the selection nor any node, edge, edge list or map entry
C15_OtherButtonsFrame ==
    [][/\ \A item \in DOMAIN node :
             MiddleOnNode(item) =>
                 /\ GraphUnchanged
                 /\ selectedNode' = IF item = selectedNode THEN None ELSE selectedNode
       /\ \A item \in DOMAIN node :
             RightOnNode(item) => GraphUnchanged /\ selectedNode' = selectedNode
       /\ \A item \in DOMAIN edge \cup {None} :
             OffNode(item) => GraphUnchanged /\ selectedNode' = selectedNode]_vars

\* a table was opened on a node and a selection was cleared by a tertiary
\* activation in a scene that holds edges
C15_Witness ==
    /\ tableData # None
    /\ status = "Selected Node: None"
    /\ selectedNode = None
    /\ sceneEdges # {}

\* list s without the edges that have the source and the destination of e
Without(s, e) ==
    SelectSeq(s, LAMBDA x : ~(edge[x].source = edge[e].source /\ edge[x].dest = edge[e].dest))

\* C16: Edge.delete on any edge e of the scene, with source S and destination
\* D, takes out of the lists of S and D the edge from S to D and nothing else
\* (an edge from D to S and the edges to other nodes stay, in their order),
\* and leaves the list of every other node as it was
C16_DeleteOnlyThatEdge ==
    \A e \in sceneEdges :
        LET N == EdgeDelete(node, edge, e)
        IN \A n \in DOMAIN node :
              /\ N[n].edges = IF n \in {edge[e].source, edge[e].dest}
                              THEN Without(node[n].edges, e)
                              ELSE node[n].edges
              /\ Cardinality(Listed(n, edge[e].source, edge[e].dest)) <= 1

\* an edge was just deleted by a gesture and its reverse is still in the
\* scene and in both lists
C16_Witness ==
    /\ status = "1->2 deleted."
    /\ \E e \in sceneEdges :
          /\ edge[e] = [source |-> 2, dest |-> 1]
          /\ InSeq(e, node[1].edges) /\ InSeq(e, node[2].edges)
    /\ Directed(1, 2) = {}

\* edges of the scene that have n as source or destination
Touching(n) == {e \in sceneEdges : edge[e].source = n \/ edge[e].dest = n}

\* C17: the edges value Node.get gives for a node n of the scene has the
\* pair of every edge of the scene that touches n, no pair of any other
\* edge, and no pair twice
C17_ExportExact ==
    \A n \in Range(sceneNodes) :
        LET P == get(node, edge, n).edges
        IN /\ \A e \in Touching(n) : InSeq(PairOf(node, edge, e), P)
           /\ \A i \in 1..Len(P) : \E e \in Touching(n) : P[i] = PairOf(node, edge, e)
           /\ \A i, j \in 1..Len(P) : i # j => P[i] # P[j]

\* the names of the records of a document
NamesOf(d) == {d[i].name : i \in 1..Len(d)}

\* C18: an import of a well-formed document, from any state, gives a scene
\* with one new node per record, one new edge per distinct pair of the
\* document and a map with exactly the document's names; no node or edge
\* from before is in the scene, in the map or in an edge list, and after the
\* import step nothing else is left
C18_ImportReplaces ==
    /\ [](\A d \in ExternalDocs \cup {disk} :
             WellFormed(d) =>
                 LET r == LoadResult(node, edge, d)
                 IN /\ r.ok
                    /\ Len(r.sn) = Len(d)
                    /\ Cardinality(Range(r.sn)) = Len(d)
                    /\ \A i \in 1..Len(d) : r.N[r.sn[i]].name = d[i].name
                    /\ Cardinality(r.se) = Len(FirstSeen(AllPairs(d)))
                    /\ DOMAIN r.nm = NamesOf(d)
                    /\ \A k \in DOMAIN r.nm : r.nm[k] \in Range(r.sn)
                    /\ Range(r.sn) \cap DOMAIN node = {}
                    /\ r.se \cap DOMAIN edge = {}
                    /\ \A n \in Range(r.sn) : Range(r.N[n].edges) \subseteq r.se
                    /\ \A e \in r.se : {r.E[e].source, r.E[e].dest} \subseteq Range(r.sn))
    /\ [][\A d \in ExternalDocs \cup {disk} :
             (file' = GoodPath /\ disk' = d /\ WellFormed(d) /\ load(GoodPath, d)) =>
                 /\ Len(sceneNodes') = Len(d)
                 /\ \A i \in 1..Len(d) : node'[sceneNodes'[i]].name = d[i].name
                 /\ Cardinality(sceneEdges') = Len(FirstSeen(AllPairs(d)))
                 /\ DOMAIN nodes_map' = NamesOf(d)
                 /\ DOMAIN node' = Range(sceneNodes')
                 /\ DOMAIN edge' = sceneEdges'
                 /\ status' = OpenedMsg(GoodPath)]_vars

\* a document of two records with an edge in each direction has been imported
C18_Witness ==
    /\ status = OpenedMsg(file)
    /\ Len(disk) = 2 /\ Len(sceneNodes) = 2
    /\ \A i \in 1..2 : node[sceneNodes[i]].name = disk[i].name
    /\ Cardinality(sceneEdges) = 2

\* C21: the selected node is none or a node of the scene, and every edge of
\* the scene has its source and its destination among the nodes of the scene
C21_LiveReferences ==
    /\ selectedNode = None \/ selectedNode \in Range(sceneNodes)
    /\ \A e \in sceneEdges : {edge[e].source, edge[e].dest} \subseteq Range(sceneNodes)

\* C22: no two edges of the scene have the same ordered (source,
\* destination) pair, no edge has its source as destination, and no edge
\* list holds the same edge twice
C22_DirectedUniqueness ==
    /\ \A e, f \in sceneEdges : edge[e] = edge[f] => e = f
    /\ \A e \in sceneEdges : edge[e].source # edge[e].dest
    /\ \A n \in DOMAIN node : \A i, j \in 1..Len(node[n].edges) :
          node[n].edges[i] = node[n].edges[j] => i = j

\* one node is the source of edges to two other nodes and lists both
C22_Witness ==
    \E a, b, c \in Range(sceneNodes) :
        /\ b # c
        /\ Directed(a, b) # {} /\ Directed(a, c) # {}
        /\ Len(node[a].edges) = 2

====
